---- MODULE Spec2Model ----
(***************************************************************************)
(* Model of main.go: a scroll producer goroutine, a pool of decode worker  *)
(* goroutines sharing an errgroup with a derived context, a join goroutine *)
(* that waits for the group, and the main goroutine that collects the      *)
(* decoded hits and writes them out.                                       *)
(*                                                                         *)
(* Both channels (hits, ch) are unbuffered, so a send and its receive are  *)
(* one rendezvous step.  A step local to one goroutine that touches no     *)
(* shared object (the append after the receive in main's loop) is folded   *)
(* into the step that precedes it.                                         *)
(***************************************************************************)
EXTENDS Naturals, Sequences, FiniteSets

\* ---- bounds of the model ------------------------------------------------
MaxPages   == 2     \* pages the scroll returns before end-of-data, at most
MaxPageLen == 2     \* hits in one page, at most (size = 100 in the program)
MaxWorkers == 2     \* worker goroutines, at most (10 in the program)
MaxHits    == 3     \* hits the scroll returns over all its pages, at most

\* ---- values ---------------------------------------------------------------
\* The _source payloads a hit may carry: a JSON object with a code, and bytes
\* that are not JSON.
Payloads == {"{code:a}", "garbage"}

Nil               == "nil"
EOF               == "io.EOF"
SourceError       == "SourceError"
DecodeError       == "DecodeError"
CancellationError == "context.Canceled"
WriteError        == "WriteError"
SendOnClosed      == "send on closed channel"
CloseOfClosed     == "close of closed channel"

Producer == 0
NoHit    == [Id |-> 0, Source |-> ""]
NoSource == [Code |-> "?"]

VARIABLES
    nworkers,    \* number of worker goroutines started (loop at line 99)
    pages,       \* the pages scroll.Do has returned so far, in order
    calls,       \* number of scroll.Do calls made
    srcErrAt,    \* the call at which scroll.Do returned a source error, 0 if none
    ppc,         \* producer position: "fetch", "send", "poll", "done"
    next,        \* index in the current page of the hit the producer sends next
    hitsClosed,  \* close(hits) has run
    wpc,         \* worker position: "recv", "decode", "publish", "incr", "poll", "done"
    hit,         \* the hit each worker holds (NoHit once it is no longer used)
    p,           \* the Source each worker decoded (NoSource once sent)
    ret,         \* what each function passed to g.Go returned ("running" before)
    gerr,        \* the error the group retains
    ctxDone,     \* ctx.Done() is closed
    failLog,     \* the stages that returned a non-nil error, in order of return
    received,    \* identifiers of the hits received from hits, one per receive
    data,        \* main's slice of decoded hits
    chClosed,    \* close(ch) has run
    bar,         \* the progress bar's count
    jpc,         \* join goroutine position: "wait", "close", "done"
    mpc,         \* main goroutine position: "range", "write", "done"
    written,     \* the slices handed to json.Marshal / ioutil.WriteFile
    panicked,    \* the value the process panicked with, Nil while it runs
    late         \* hits received (recv) and hits decoded (dec) with ctx cancelled

vars == <<nworkers, pages, calls, srcErrAt, ppc, next, hitsClosed, wpc, hit, p,
          ret, gerr, ctxDone, failLog, received, data, chClosed, bar, jpc,
          mpc, written, panicked, late>>

Workers == 1..nworkers
Stages  == {Producer} \cup Workers

\* ---- pure helpers ---------------------------------------------------------
RECURSIVE Flatten(_)
Flatten(ps) == IF ps = <<>> THEN <<>> ELSE Head(ps) \o Flatten(Tail(ps))

Range(s) == {s[i] : i \in 1..Len(s)}
Ids(s)   == {s[i].Id : i \in 1..Len(s)}
HitIds(s) == {s[i].ID : i \in 1..Len(s)}

\* json.Unmarshal([]byte(*hit.Source), &p): an error for bytes that are not
\* JSON, otherwise the object's code field.
Unmarshal(src) ==
    IF src = "{code:a}" THEN [err |-> Nil, p |-> [Code |-> "a"]]
    ELSE [err |-> DecodeError, p |-> NoSource]

\* A page of n hits whose identifiers continue those already returned.
MkPage(n, pay) ==
    [i \in 1..n |-> [Id |-> Len(Flatten(pages)) + i, Source |-> pay[i]]]

\* What one scroll.Do(ctx) call can return: end-of-data, a source error, or
\* a non-empty page; a request made on a cancelled context fails.
ScrollResults ==
    IF ctxDone THEN {[err |-> CancellationError, hits |-> <<>>]}
    ELSE {[err |-> EOF, hits |-> <<>>], [err |-> SourceError, hits |-> <<>>]}
         \cup (IF Len(pages) < MaxPages
               THEN {[err |-> Nil, hits |-> MkPage(n, pay)] :
                        n \in {m \in 1..MaxPageLen :
                                   Len(Flatten(pages)) + m <= MaxHits},
                        pay \in [1..MaxPageLen -> Payloads]}
               ELSE {})

\* ---- errgroup -------------------------------------------------------------
LastError(err) == err

\* The group keeps the first non-nil error returned and cancels ctx then.
FirstError(err) == IF gerr = Nil THEN err ELSE gerr

GroupReturnCancelAlways(s, err) ==
    /\ ret' = [ret EXCEPT ![s] = err]
    /\ ctxDone' = TRUE
    /\ IF err = Nil
       THEN UNCHANGED <<gerr, failLog>>
       ELSE /\ gerr' = FirstError(err)
            /\ failLog' = Append(failLog, [stage |-> s, err |-> err])

\* A function passed to g.Go returns err.
GroupReturn(s, err) ==
    /\ ret' = [ret EXCEPT ![s] = err]
    /\ IF err = Nil
       THEN UNCHANGED <<gerr, ctxDone, failLog>>
       ELSE /\ gerr' = FirstError(err)
            /\ ctxDone' = TRUE
            /\ failLog' = Append(failLog, [stage |-> s, err |-> err])

Alive == panicked = Nil /\ mpc # "done"

\* ---- initial state --------------------------------------------------------
Init ==
    /\ nworkers \in 1..MaxWorkers
    /\ pages = <<>>
    /\ calls = 0
    /\ srcErrAt = 0
    /\ ppc = "fetch"
    /\ next = 0
    /\ hitsClosed = FALSE
    /\ wpc = [w \in Workers |-> "recv"]
    /\ hit = [w \in Workers |-> NoHit]
    /\ p = [w \in Workers |-> NoSource]
    /\ ret = [s \in Stages |-> "running"]
    /\ gerr = Nil
    /\ ctxDone = FALSE
    /\ failLog = <<>>
    /\ received = <<>>
    /\ data = <<>>
    /\ chClosed = FALSE
    /\ bar = 0
    /\ jpc = "wait"
    /\ mpc = "range"
    /\ written = <<>>
    /\ panicked = Nil
    /\ late = [recv |-> {}, dec |-> {}]

\* ---- producer (lines 69-95) -----------------------------------------------
ProducerReturnNoClose(err) ==
    /\ ppc' = "done"
    /\ UNCHANGED hitsClosed
    /\ GroupReturn(Producer, err)

\* The producer's function returns err; its deferred close(hits) runs.
ProducerReturn(err) ==
    /\ ppc' = "done"
    /\ hitsClosed' = TRUE
    /\ GroupReturn(Producer, err)

OnFetchErrorRetryOnce(err) ==
    /\ srcErrAt' = IF err = SourceError THEN calls + 1 ELSE srcErrAt
    /\ IF srcErrAt = 0 /\ err = SourceError
       THEN UNCHANGED <<ppc, hitsClosed, ret, gerr, ctxDone, failLog>>
       ELSE ProducerReturn(err)

\* scroll.Do returned an error other than io.EOF: return err (lines 78-80).
OnFetchError(err) ==
    /\ srcErrAt' = IF err = SourceError THEN calls + 1 ELSE srcErrAt
    /\ ProducerReturn(err)

\* results, err := scroll.Do(ctx) and the two returns that follow it.
ProducerFetch ==
    /\ Alive
    /\ ppc = "fetch"
    /\ calls' = calls + 1
    /\ \E r \in ScrollResults :
         IF r.err = EOF
         THEN /\ ProducerReturn(Nil)
              /\ UNCHANGED <<pages, next, srcErrAt>>
         ELSE IF r.err # Nil
         THEN /\ OnFetchError(r.err)
              /\ UNCHANGED <<pages, next>>
         ELSE /\ pages' = Append(pages, r.hits)
              /\ next' = 1
              /\ ppc' = IF Len(r.hits) = 0 THEN "poll" ELSE "send"
              /\ UNCHANGED <<hitsClosed, ret, gerr, ctxDone, failLog, srcErrAt>>
    /\ UNCHANGED <<nworkers, late, wpc, hit, p, received, data, chClosed, bar, jpc,
                   mpc, written, panicked>>

AfterSendDropLast ==
    IF next + 1 < Len(pages[Len(pages)])
    THEN [pc |-> "send", next |-> next + 1]
    ELSE [pc |-> "poll", next |-> next]

\* The producer's position after its send of hit number `next` completed.
AfterSend ==
    IF next < Len(pages[Len(pages)])
    THEN [pc |-> "send", next |-> next + 1]
    ELSE [pc |-> "poll", next |-> next]

HandoffLossy(w) ==
    /\ Alive
    /\ ppc = "send"
    /\ wpc[w] = "recv"
    /\ ~hitsClosed
    /\ ppc' = AfterSend.pc
    /\ next' = AfterSend.next
    /\ UNCHANGED <<nworkers, late, pages, calls, srcErrAt, hitsClosed, wpc,
                   hit, p, ret, gerr, ctxDone, failLog, received, data,
                   chClosed, bar, jpc, mpc, written, panicked>>

HandoffBroadcast(w) ==
    /\ Alive
    /\ ppc = "send"
    /\ wpc[w] = "recv"
    /\ ~hitsClosed
    /\ LET h  == pages[Len(pages)][next]
           rs == {v \in Workers : wpc[v] = "recv"} IN
         /\ hit' = [v \in Workers |-> IF v \in rs THEN h ELSE hit[v]]
         /\ wpc' = [v \in Workers |-> IF v \in rs THEN "decode" ELSE wpc[v]]
         /\ received' = received \o [i \in 1..Cardinality(rs) |-> h.Id]
    /\ ppc' = AfterSend.pc
    /\ next' = AfterSend.next
    /\ late' = IF ctxDone
               THEN [late EXCEPT !.recv = @ \cup {pages[Len(pages)][next].Id}]
               ELSE late
    /\ UNCHANGED <<nworkers, pages, calls, srcErrAt, hitsClosed, p, ret, gerr,
                   ctxDone, failLog, data, chClosed, bar, jpc, mpc, written,
                   panicked>>

\* hits <- *hit meets a worker's receive in "for hit := range hits".
Handoff(w) ==
    /\ Alive
    /\ ppc = "send"
    /\ wpc[w] = "recv"
    /\ ~hitsClosed
    /\ LET h == pages[Len(pages)][next] IN
         /\ hit' = [hit EXCEPT ![w] = h]
         /\ received' = Append(received, h.Id)
    /\ wpc' = [wpc EXCEPT ![w] = "decode"]
    /\ ppc' = AfterSend.pc
    /\ next' = AfterSend.next
    /\ late' = IF ctxDone
               THEN [late EXCEPT !.recv = @ \cup {pages[Len(pages)][next].Id}]
               ELSE late
    /\ UNCHANGED <<nworkers, pages, calls, srcErrAt, hitsClosed, p, ret, gerr,
                   ctxDone, failLog, data, chClosed, bar, jpc, mpc, written,
                   panicked>>

\* The select after a page has been sent (lines 89-93).
ProducerPoll ==
    /\ Alive
    /\ ppc = "poll"
    /\ IF ctxDone
       THEN ProducerReturn(CancellationError)
       ELSE /\ ppc' = "fetch"
            /\ UNCHANGED <<hitsClosed, ret, gerr, ctxDone, failLog>>
    /\ UNCHANGED <<nworkers, late, pages, calls, srcErrAt, next, wpc, hit, p,
                   received, data, chClosed, bar, jpc, mpc, written, panicked>>

\* ---- workers (lines 100-123) ----------------------------------------------
\* range hits ends on the closed channel: return nil.
WorkerClosed(w) ==
    /\ Alive
    /\ wpc[w] = "recv"
    /\ hitsClosed
    /\ wpc' = [wpc EXCEPT ![w] = "done"]
    /\ GroupReturn(w, Nil)
    /\ UNCHANGED <<nworkers, late, pages, calls, srcErrAt, ppc, next, hitsClosed, hit,
                   p, received, data, chClosed, bar, jpc, mpc, written,
                   panicked>>

WorkerDecodeIgnoreErr(w) ==
    /\ Alive
    /\ wpc[w] = "decode"
    /\ wpc' = [wpc EXCEPT ![w] = "publish"]
    /\ p' = [p EXCEPT ![w] = Unmarshal(hit[w].Source).p]
    /\ late' = IF ctxDone
               THEN [late EXCEPT !.dec = @ \cup {hit[w].Id}]
               ELSE late
    /\ UNCHANGED <<nworkers, pages, calls, srcErrAt, ppc, next, hitsClosed,
                   hit, ret, gerr, ctxDone, failLog, received, data, chClosed,
                   bar, jpc, mpc, written, panicked>>

\* json.Unmarshal and the return on its error (lines 103-107).
WorkerDecode(w) ==
    /\ Alive
    /\ wpc[w] = "decode"
    /\ LET r == Unmarshal(hit[w].Source) IN
         IF r.err # Nil
         THEN /\ wpc' = [wpc EXCEPT ![w] = "done"]
              /\ GroupReturn(w, r.err)
              /\ hit' = [hit EXCEPT ![w] = NoHit]
              /\ UNCHANGED p
         ELSE /\ wpc' = [wpc EXCEPT ![w] = "publish"]
              /\ p' = [p EXCEPT ![w] = r.p]
              /\ UNCHANGED <<hit, ret, gerr, ctxDone, failLog>>
    /\ late' = IF ctxDone
               THEN [late EXCEPT !.dec = @ \cup {hit[w].Id}]
               ELSE late
    /\ UNCHANGED <<nworkers, pages, calls, srcErrAt, ppc, next, hitsClosed,
                   received, data, chClosed, bar, jpc, mpc, written, panicked>>

DecodedShared(w) == [ID |-> hit[1].Id, Source |-> p[1]]

\* Hit{ID: hit.Id, Source: p}
Decoded(w) == [ID |-> hit[w].Id, Source |-> p[w]]

\* ch <- Hit{ID: hit.Id, Source: p} meets main's receive in
\* "for hit := range ch", and main appends the hit to data.
WorkerPublish(w) ==
    /\ Alive
    /\ wpc[w] = "publish"
    /\ IF chClosed
       THEN /\ panicked' = SendOnClosed
            /\ UNCHANGED <<data, wpc, hit, p>>
       ELSE /\ mpc = "range"
            /\ data' = Append(data, Decoded(w))
            /\ wpc' = [wpc EXCEPT ![w] = "incr"]
            /\ hit' = [hit EXCEPT ![w] = NoHit]
            /\ p' = [p EXCEPT ![w] = NoSource]
            /\ UNCHANGED panicked
    /\ UNCHANGED <<nworkers, late, pages, calls, srcErrAt, ppc, next, hitsClosed,
                   ret, gerr, ctxDone, failLog, received, chClosed, bar,
                   jpc, mpc, written>>

WorkerIncrementTwice(w) ==
    /\ Alive
    /\ wpc[w] = "incr"
    /\ bar' = bar + 2
    /\ wpc' = [wpc EXCEPT ![w] = "poll"]
    /\ UNCHANGED <<nworkers, late, pages, calls, srcErrAt, ppc, next,
                   hitsClosed, hit, p, ret, gerr, ctxDone, failLog, received,
                   data, chClosed, jpc, mpc, written, panicked>>

\* bar.Increment()
WorkerIncrement(w) ==
    /\ Alive
    /\ wpc[w] = "incr"
    /\ bar' = bar + 1
    /\ wpc' = [wpc EXCEPT ![w] = "poll"]
    /\ UNCHANGED <<nworkers, late, pages, calls, srcErrAt, ppc, next, hitsClosed, hit,
                   p, ret, gerr, ctxDone, failLog, received, data, chClosed,
                   jpc, mpc, written, panicked>>

\* The select after a hit has been published (lines 116-120).
WorkerPoll(w) ==
    /\ Alive
    /\ wpc[w] = "poll"
    /\ IF ctxDone
       THEN /\ wpc' = [wpc EXCEPT ![w] = "done"]
            /\ GroupReturn(w, CancellationError)
       ELSE /\ wpc' = [wpc EXCEPT ![w] = "recv"]
            /\ UNCHANGED <<ret, gerr, ctxDone, failLog>>
    /\ UNCHANGED <<nworkers, late, pages, calls, srcErrAt, ppc, next, hitsClosed, hit,
                   p, received, data, chClosed, bar, jpc, mpc, written,
                   panicked>>

\* ---- join goroutine (lines 126-132) ---------------------------------------
AllReturned == \A s \in Stages : ret[s] # "running"

WaitReadyAnyFailure == AllReturned \/ gerr # Nil

WaitReadyProducerOnly == ret[Producer] # "running"

\* g.Wait() blocks until every function passed to g.Go has returned.
WaitReady == AllReturned

WaitResultNil == Nil

\* g.Wait() hands back the error the group retained.
WaitResult == gerr

\* g.Wait() returns and cancels ctx; a non-nil error panics (lines 128-130).
JoinWait ==
    /\ Alive
    /\ jpc = "wait"
    /\ WaitReady
    /\ ctxDone' = TRUE
    /\ IF WaitResult # Nil
       THEN /\ panicked' = WaitResult
            /\ UNCHANGED jpc
       ELSE /\ jpc' = "close"
            /\ UNCHANGED panicked
    /\ UNCHANGED <<nworkers, late, pages, calls, srcErrAt, ppc, next, hitsClosed, wpc,
                   hit, p, ret, gerr, failLog, received, data, chClosed, bar,
                   mpc, written>>

JoinCloseAgain ==
    /\ Alive
    /\ jpc = "close"
    /\ UNCHANGED jpc
    /\ IF chClosed
       THEN /\ panicked' = CloseOfClosed
            /\ UNCHANGED chClosed
       ELSE /\ chClosed' = TRUE
            /\ UNCHANGED panicked
    /\ UNCHANGED <<nworkers, late, pages, calls, srcErrAt, ppc, next,
                   hitsClosed, wpc, hit, p, ret, gerr, ctxDone, failLog,
                   received, data, bar, mpc, written>>

\* close(ch)
JoinClose ==
    /\ Alive
    /\ jpc = "close"
    /\ jpc' = "done"
    /\ IF chClosed
       THEN /\ panicked' = CloseOfClosed
            /\ UNCHANGED chClosed
       ELSE /\ chClosed' = TRUE
            /\ UNCHANGED panicked
    /\ UNCHANGED <<nworkers, late, pages, calls, srcErrAt, ppc, next, hitsClosed, wpc,
                   hit, p, ret, gerr, ctxDone, failLog, received, data, bar,
                   mpc, written>>

\* ---- main goroutine (lines 136-150) ---------------------------------------
\* range ch ends on the closed channel.
MainRangeEnd ==
    /\ Alive
    /\ mpc = "range"
    /\ chClosed
    /\ mpc' = "write"
    /\ UNCHANGED <<nworkers, late, pages, calls, srcErrAt, ppc, next, hitsClosed, wpc,
                   hit, p, ret, gerr, ctxDone, failLog, received, data,
                   chClosed, bar, jpc, written, panicked>>

MainWriteSkipEmpty ==
    /\ Alive
    /\ mpc = "write"
    /\ written' = IF data = <<>> THEN written ELSE Append(written, data)
    /\ \E ok \in BOOLEAN :
         IF ok \/ data = <<>> THEN mpc' = "done" /\ UNCHANGED panicked
                              ELSE panicked' = WriteError /\ UNCHANGED mpc
    /\ UNCHANGED <<nworkers, late, pages, calls, srcErrAt, ppc, next, hitsClosed, wpc,
                   hit, p, ret, gerr, ctxDone, failLog, received, data,
                   chClosed, bar, jpc>>

\* json.Marshal(data), ioutil.WriteFile, and the panic on the write's error.
MainWrite ==
    /\ Alive
    /\ mpc = "write"
    /\ written' = Append(written, data)
    /\ \E ok \in BOOLEAN :
         IF ok THEN mpc' = "done" /\ UNCHANGED panicked
               ELSE panicked' = WriteError /\ UNCHANGED mpc
    /\ UNCHANGED <<nworkers, late, pages, calls, srcErrAt, ppc, next, hitsClosed, wpc,
                   hit, p, ret, gerr, ctxDone, failLog, received, data,
                   chClosed, bar, jpc>>

\* ---- specification --------------------------------------------------------
Next ==
    \/ ProducerFetch
    \/ ProducerPoll
    \/ \E w \in Workers : Handoff(w)
    \/ \E w \in Workers : WorkerClosed(w)
    \/ \E w \in Workers : WorkerDecode(w)
    \/ \E w \in Workers : WorkerPublish(w)
    \/ \E w \in Workers : WorkerIncrement(w)
    \/ \E w \in Workers : WorkerPoll(w)
    \/ JoinWait
    \/ JoinClose
    \/ MainRangeEnd
    \/ MainWrite

Spec == Init /\ [][Next]_vars

\* Every goroutine that can run is eventually run by the Go scheduler.
FairSpec == Spec /\ WF_vars(Next)

\* ---- run outcome ----------------------------------------------------------
StageErrors == {SourceError, DecodeError, CancellationError}

\* The join goroutine panicked with the group's error: the run FAILED.
Failed == panicked \in StageErrors

\* g.Wait() returned nil: the run SUCCEEDED.
Succeeded == jpc # "wait"

AllHits == Flatten(pages)

\* The hits whose send on hits has completed.
Sent ==
    IF pages = <<>> THEN <<>>
    ELSE LET last == pages[Len(pages)]
             k    == IF ppc = "send" THEN next - 1 ELSE Len(last)
         IN  Flatten(SubSeq(pages, 1, Len(pages) - 1)) \o SubSeq(last, 1, k)

IdSeq(s)  == [i \in 1..Len(s) |-> s[i].Id]
HitIdSeq(s) == [i \in 1..Len(s) |-> s[i].ID]
NoRepeat(s) == \A i, j \in 1..Len(s) : s[i] = s[j] => i = j

\* rs holds exactly one decoded hit for each hit of the pages returned.
ExactlyAll(rs) ==
    /\ Len(rs) = Len(AllHits)
    /\ HitIds(rs) = Ids(AllHits)
    /\ NoRepeat(HitIdSeq(rs))

\* ---- C1 -------------------------------------------------------------------
\* C1: in a run that succeeded, the slice handed to persistence holds
\* exactly one decoded hit per hit of all pages returned: same identifier
\* set, no identifier twice, length equal to the total number of hits.
C1_ResultSetExact ==
    /\ Succeeded => ExactlyAll(data)
    /\ \A i \in 1..Len(written) : ExactlyAll(written[i])

C1_Witness ==
    /\ nworkers = 2
    /\ Len(pages) = 2
    /\ Len(written) = 1
    /\ Len(written[1]) = 3
    /\ written[1][1].ID # 1

\* ---- C2 -------------------------------------------------------------------
\* C2: once any stage has returned a failure the write has not been invoked
\* (and, the failure log only growing, never is); the write is invoked at
\* most once in any run.
C2_NoPersistAfterFailure ==
    /\ failLog # <<>> => written = <<>> /\ mpc = "range"
    /\ Len(written) <= 1

C2_Witness ==
    /\ Failed
    /\ Len(failLog) >= 2
    /\ data # <<>>
    /\ written = <<>>

\* ---- C3 -------------------------------------------------------------------
DecodeFailed == \E i \in 1..Len(failLog) : failLog[i].err = DecodeError

\* C3: after a worker's decode fails, the producer and every worker
\* eventually terminate and the run eventually reaches FAILED.
C3_DecodeFailureReachesFailed == DecodeFailed ~> (AllReturned /\ Failed)

\* ---- C4 -------------------------------------------------------------------
\* C4: after scroll.Do returned a source error at call K, no further call is
\* made, the pages returned stay the K-1 earlier ones, every hit received,
\* decoded or collected belongs to them, nothing is written, and the run
\* eventually reaches FAILED.
C4_SourceErrorStops ==
    /\ [](srcErrAt # 0 =>
            /\ calls = srcErrAt
            /\ Len(pages) = srcErrAt - 1
            /\ ppc = "done"
            /\ Range(received) \subseteq Ids(AllHits)
            /\ HitIds(data) \subseteq Ids(AllHits)
            /\ written = <<>>)
    /\ (srcErrAt # 0) ~> Failed

C4_Witness ==
    /\ srcErrAt = 2
    /\ Failed
    /\ panicked = SourceError
    /\ data # <<>>

\* ---- C5 -------------------------------------------------------------------
\* C5: the receives from hits are exactly the completed sends, each once
\* and in order (no hit reaches two workers); and while ctx is not
\* cancelled a producer blocked in a send still has a running worker to
\* take the hit.
C5_OneReceiverPerHit ==
    /\ received = IdSeq(Sent)
    /\ NoRepeat(received)
    /\ (ppc = "send" /\ ~ctxDone) => \E w \in Workers : ret[w] = "running"

C5_Witness ==
    /\ nworkers = 2
    /\ ~ctxDone
    /\ Len(received) = 3
    /\ hit[1].Id = 3
    /\ hit[2].Id = 2

\* ---- C6 -------------------------------------------------------------------
\* C6: ch is closed only when the producer and every worker have returned;
\* main leaves its loop only then, no worker is left to publish, and what
\* is written is all of data.
C6_CloseAfterJoin ==
    /\ chClosed => AllReturned
    /\ mpc # "range" => chClosed /\ \A w \in Workers : wpc[w] = "done"
    /\ \A i \in 1..Len(written) : written[i] = data
    /\ panicked \notin {SendOnClosed, CloseOfClosed}

C6_Witness ==
    /\ chClosed
    /\ mpc = "write"
    /\ Len(data) >= 2
    /\ nworkers = 2

\* ---- C7 -------------------------------------------------------------------
\* The pipeline has ended in success: every stage returned nil, ch is
\* closed, main's loop has ended and the write was invoked once.
SucceededDone ==
    /\ \A s \in Stages : ret[s] = Nil
    /\ chClosed
    /\ mpc # "range"
    /\ Len(written) = 1

\* C7: a run in which no stage ever fails (the source ends with end-of-data,
\* every decode succeeds) eventually ends in success.
C7_SuccessTerminates == ([](failLog = <<>>)) => <>SucceededDone

C7_Witness ==
    /\ SucceededDone
    /\ Len(pages) = 2
    /\ Len(AllHits) >= 3
    /\ mpc = "done"

\* ---- C8 -------------------------------------------------------------------
\* The first scroll.Do signalled end-of-data.
EmptyRun == ret[Producer] = Nil /\ pages = <<>>

\* C8: when the first fetch signals end-of-data nothing is sent, decoded or
\* collected, the bar stays 0, and the run succeeds with one write of an
\* empty slice.
C8_EmptyRun ==
    /\ [](EmptyRun =>
            /\ calls = 1
            /\ received = <<>>
            /\ data = <<>>
            /\ bar = 0
            /\ \A w \in Workers : wpc[w] \in {"recv", "done"}
            /\ failLog = <<>>
            /\ written \in {<<>>, << <<>> >>})
    /\ EmptyRun ~> (Succeeded /\ written = << <<>> >>)

C8_Witness ==
    /\ EmptyRun
    /\ Succeeded
    /\ written = << <<>> >>
    /\ mpc = "done"

\* ---- C9 -------------------------------------------------------------------
\* C9: the identifier set of a successful run's result is that of the
\* source's hits whatever the number of workers; with one worker the result
\* is in the source's order, with more only the order may differ.
C9_WorkerCountIrrelevant ==
    Succeeded =>
        /\ HitIds(data) = Ids(AllHits)
        /\ nworkers = 1 => HitIdSeq(data) = IdSeq(AllHits)

C9_Witness ==
    /\ nworkers > 1
    /\ Succeeded
    /\ HitIds(data) = Ids(AllHits)
    /\ HitIdSeq(data) # IdSeq(AllHits)

\* ---- C10 ------------------------------------------------------------------
\* C10: the group retains the error of the stage that returned a failure
\* first, later failures never replace it, and it is what the join reports.
C10_FirstErrorWins ==
    /\ failLog = <<>> => gerr = Nil
    /\ failLog # <<>> => gerr = failLog[1].err
    /\ Failed => failLog # <<>> /\ panicked = failLog[1].err

C10_Witness ==
    /\ Failed
    /\ Len(failLog) >= 2
    /\ failLog[1].err = DecodeError
    /\ failLog[2].err = CancellationError
    /\ panicked = DecodeError

\* ---- C11 ------------------------------------------------------------------
\* The hit of the pages with identifier id (NoHit if there is none).
HitOf(id) ==
    IF \E i \in 1..Len(AllHits) : AllHits[i].Id = id
    THEN AllHits[CHOOSE i \in 1..Len(AllHits) : AllHits[i].Id = id]
    ELSE NoHit

\* C11: every element of data is the decoding of a hit the producer sent
\* whose decode succeeded, carries that hit's identifier, and no hit
\* contributes two elements; this holds in every state of every run.
C11_DataFromDecodedHits ==
    /\ \A i \in 1..Len(data) :
         /\ data[i].ID \in Ids(Sent)
         /\ Unmarshal(HitOf(data[i].ID).Source).err = Nil
         /\ data[i].Source = Unmarshal(HitOf(data[i].ID).Source).p
    /\ NoRepeat(HitIdSeq(data))

C11_Witness ==
    /\ DecodeFailed
    /\ Len(data) = 2
    /\ Len(AllHits) = 3
    /\ Failed

\* ---- C12 ------------------------------------------------------------------
\* C12: once ctx is cancelled the producer completes no further send on
\* hits and gets no further page, and it does not stay in a send: it
\* returns a failure.
C12_ProducerStopsAtCancel ==
    /\ [][ctxDone => received' = received /\ pages' = pages]_vars
    /\ (ctxDone /\ ppc # "done") ~> (ret[Producer] \in StageErrors)

\* ---- C13 ------------------------------------------------------------------
\* C13: no worker receives a hit after ctx was cancelled, and no hit whose
\* decode ran after ctx was cancelled is published on ch.
C13_NoWorkAfterCancel ==
    /\ late.recv = {}
    /\ HitIds(data) \cap late.dec = {}

\* ---- C14 ------------------------------------------------------------------
AllWorkersReturned == \A w \in Workers : ret[w] # "running"

\* C14: hits is closed exactly when the producer has returned, on every
\* exit path; only a producer step sends on or closes hits; and once the
\* producer has returned every worker eventually returns.
C14_HitsClosedOnExit ==
    /\ [](hitsClosed <=> ppc = "done")
    /\ [](ppc = "done" <=> ret[Producer] # "running")
    /\ [][received' # received => ppc = "send"]_vars
    /\ [][hitsClosed' # hitsClosed => ppc # "done" /\ ppc' = "done"]_vars
    /\ (ppc = "done") ~> AllWorkersReturned

C14_Witness ==
    /\ ret[Producer] = CancellationError
    /\ hitsClosed
    /\ AllWorkersReturned
    /\ nworkers = 2

\* ---- C15 ------------------------------------------------------------------
\* C15: the failure is reported only when the producer and every worker
\* have returned; no stage is running or blocked then.
C15_FailedAfterJoin ==
    Failed =>
        /\ AllReturned
        /\ ppc = "done"
        /\ \A w \in Workers : wpc[w] = "done"
        /\ panicked = gerr

C15_Witness ==
    /\ Failed
    /\ nworkers = 2
    /\ ret[Producer] = Nil
    /\ ret[1] = DecodeError
    /\ ret[2] = Nil

\* ---- C16 ------------------------------------------------------------------
\* C16: ctx starts not cancelled, once cancelled it stays so, and while a
\* stage is still running it is cancelled only if some stage has returned
\* a failure.
C16_CancelOnceOnFailure ==
    /\ [](calls = 0 /\ failLog = <<>> => ~ctxDone)
    /\ [][ctxDone => ctxDone']_vars
    /\ [](ctxDone /\ ~AllReturned => failLog # <<>>)
    /\ [](failLog # <<>> => ctxDone)

C16_Witness ==
    /\ ctxDone
    /\ ~AllReturned
    /\ Len(failLog) = 1
    /\ data # <<>>

\* ---- C17 ------------------------------------------------------------------
\* C17: the bar never decreases, it counts only hits main has already
\* received (it lags by the workers between their send and their
\* increment), and in a successful run it ends at the number of hits.
C17_ProgressCounter ==
    /\ [][bar' >= bar]_vars
    /\ [](bar <= Len(data))
    /\ [](bar = Len(data) - Cardinality({w \in Workers : wpc[w] = "incr"}))
    /\ [](Succeeded => bar = Len(AllHits))

C17_Witness ==
    /\ Succeeded
    /\ bar = 3
    /\ Len(pages) = 2
    /\ Len(pages[1]) = 2

\* ---- C18 ------------------------------------------------------------------
\* C18: nothing is sent on a closed channel and no channel is closed twice:
\* hits is closed at the producer's return, after its last send; ch is
\* closed once, after every worker returned, and never in a failed run.
C18_ChannelDiscipline ==
    /\ [](panicked \notin {SendOnClosed, CloseOfClosed})
    /\ [](hitsClosed => ppc = "done")
    /\ [][hitsClosed => hitsClosed' /\ received' = received]_vars
    /\ [](chClosed => AllWorkersReturned /\ failLog = <<>> /\ jpc = "done")
    /\ [][chClosed => chClosed' /\ data' = data]_vars
    /\ [](Failed => ~chClosed)

C18_Witness ==
    /\ chClosed
    /\ hitsClosed
    /\ mpc = "done"
    /\ Len(data) = 3

\* ---- C19 ------------------------------------------------------------------
\* C19: the error the group retains, and the one the join reports, is a
\* source error or a decode error, never the context's error; a stage
\* returns the context's error only after a failure was recorded.
C19_RootCauseReported ==
    /\ gerr \in {Nil, SourceError, DecodeError}
    /\ Failed => panicked \in {SourceError, DecodeError}
    /\ \A i \in 1..Len(failLog) : failLog[i].err = CancellationError => i > 1

C19_Witness ==
    /\ Failed
    /\ ret[Producer] = CancellationError
    /\ panicked = DecodeError
    /\ Len(failLog) = 3

\* ---- C20 ------------------------------------------------------------------
\* Decode errors returned so far.
DecodeFailures ==
    Cardinality({i \in 1..Len(failLog) : failLog[i].err = DecodeError})

\* C20: the hits received but neither published nor failed are those held
\* by workers, at most one each; and the producer is past a page (polling,
\* fetching or returned) only when every hit of it has been received.
C20_Backpressure ==
    /\ Len(received) - Len(data) - DecodeFailures
         = Cardinality({w \in Workers : wpc[w] \in {"decode", "publish"}})
    /\ Len(received) - Len(data) - DecodeFailures <= nworkers
    /\ ppc # "send" => received = IdSeq(AllHits)

C20_Witness ==
    /\ nworkers = 2
    /\ Len(received) - Len(data) = 2
    /\ failLog = <<>>
    /\ ppc = "fetch"
    /\ Len(pages) = 1

====
